---- MODULE Spec2Model ----
(***************************************************************************)
(* Nanopore signal simulator (Pore, generate_signal, the simulator         *)
(* generator) and the event-based decoder (transition_detector,            *)
(* extract_event_means, nearest-level decode).                             *)
(*                                                                         *)
(* Real numbers are modelled exactly, in fixed point: a current of x is    *)
(* the integer x * Scale.  Scale is a multiple of 4^k and of 3k for every  *)
(* k <= 3, of 100 (the detector's 0.03) and of 250 (the default signal to  *)
(* noise ratio), so that every level and threshold of the program is an    *)
(* integer.  A mean is the exact rational [sum, n].  Floating-point        *)
(* rounding is modelled where a level is computed by repeated addition     *)
(* and division (serial_resistor_model_float), and nowhere else.           *)
(***************************************************************************)
EXTENDS Integers, Sequences, FiniteSets, TLC

VARIABLES
    ctor,                        \* the arguments Pore(...) was called with
    pore_error,                  \* the exception Pore.__init__ raised, or "none"
    kmer_len,                    \* Pore.kmer_len
    mean_dwell_time,             \* Pore.mean_dwell_time: its whole part
    mean_dwell_half,             \* Pore.mean_dwell_time: 1 when it has a fractional part of 1/2
    noise_amplitude,             \* Pore.noise_amplitude
    signal_noise_process,        \* Pore.signal_noise_process (name of the NOISE entry)
    dwell_distribution_process,  \* Pore.dwell_distribution_process (name of the DWELL entry)
    current_level_model,         \* the name Pore.__init__ looked up in CURRENT_LEVELS
    current_levels,              \* Pore.current_levels
    pc,                          \* position of the running generate_signal call
    dna_sequence,                \* generate_signal: its argument
    i,                           \* generate_signal: the loop variable (next window)
    sig_buf,                     \* generate_signal: the local list `signal`
    alignment,                   \* generate_signal: the local list `alignment`
    dwell_draws,                 \* history: the dwell counts drawn by the running call
    draw_log,                    \* history: the random draws of the running call, in order
    gen_error,                   \* the exception that ended the generate_signal call, or "none"
    signal,                      \* the signal in hand (returned by generate_signal, or loaded)
    stage,                       \* position of the decoding notebook
    window_size,                 \* transition_detector: argument
    threshold,                   \* transition_detector: argument
    events,                      \* transition_detector: first result
    ranges,                      \* transition_detector: second result
    means,                       \* extract_event_means: result
    final_sequence,              \* the decoded sequence
    sim_pc,                      \* position of the simulator generator
    chunksize,                   \* simulator: argument (0 stands for None)
    yielded,                     \* simulator: the triple handed to the consumer by the last pull
    skipped                      \* history: the running pull has skipped a sequence

poreVars == <<ctor, pore_error, kmer_len, mean_dwell_time, mean_dwell_half, noise_amplitude,
              signal_noise_process, dwell_distribution_process, current_level_model,
              current_levels>>
genVars == <<pc, dna_sequence, i, sig_buf, alignment, dwell_draws, draw_log, gen_error>>
decVars == <<stage, window_size, threshold, events, ranges, means, final_sequence>>
simVars == <<sim_pc, chunksize, yielded, skipped>>
vars == <<poreVars, genVars, signal, decVars, simVars>>

----------------------------------------------------------------------------
(* Bounds of the model *)

MaxSeqLen == 2
MaxDwell == 2
MaxSigLen == 5
MaxWindow == 4

\* k-mer lengths and mean dwell times of the Pores considered
KmerLens == {1, 2, 3}
MeanDwells == {2}

\* kmer_len arguments handed to the constructor: also 0 and a negative one
KmerLenArgs == {0 - 1, 0} \cup KmerLens

\* Fixed-point unit: 2^6 * 3^2 * 5^3.
Scale == 64 * 9 * 125

----------------------------------------------------------------------------
(* Small helpers: Python's built-ins *)

Abs(x) == IF x < 0 THEN 0 - x ELSE x

Max2(a, b) == IF a >= b THEN a ELSE b

\* max(section), min(section) of a non-empty list
SeqMax(s) == CHOOSE x \in {s[j] : j \in DOMAIN s} : \A y \in {s[j] : j \in DOMAIN s} : y <= x
SeqMin(s) == CHOOSE x \in {s[j] : j \in DOMAIN s} : \A y \in {s[j] : j \in DOMAIN s} : x <= y

RECURSIVE SeqSum(_)
SeqSum(s) == IF s = <<>> THEN 0 ELSE s[1] + SeqSum(Tail(s))

\* s[j] with Python's indexing: j is 0-based and a negative j counts from the end
PyItem(s, j) == IF j < 0 THEN s[Len(s) + j + 1] ELSE s[j + 1]

\* a slice bound as Python reads it: a negative one counts from the end, and
\* the result is clamped to 0 .. len(s)
SliceBound(s, x) ==
    LET y == IF x < 0 THEN x + Len(s) ELSE x
    IN  IF y < 0 THEN 0 ELSE IF y > Len(s) THEN Len(s) ELSE y

\* s[a:b] with Python's slicing
PySlice(s, a, b) ==
    LET lo == SliceBound(s, a)
        hi == SliceBound(s, b)
    IN  IF lo >= hi THEN <<>> ELSE SubSeq(s, lo + 1, hi)

\* list(range(n)) as a set of 0-based indices; empty for n <= 0
PyRange(n) == 0 .. (n - 1)

----------------------------------------------------------------------------
(* Alphabet and k-mer indexing *)

ALPHABET == <<"A", "C", "G", "T">>

Symbols == {ALPHABET[j] : j \in DOMAIN ALPHABET}

NUCLEOTIDE_ORDER == [s \in Symbols |-> CASE s = "A" -> 0 [] s = "C" -> 1
                                          [] s = "G" -> 2 [] s = "T" -> 3]

\* x << 2
Shl1(x) == x * 2

Shl2(x) == x * 4

\* Pore._kmer_index: fold the k-mer left to right
RECURSIVE KmerFold(_, _)
KmerFold(lexical_order, rest) ==
    IF rest = <<>> THEN lexical_order
    ELSE KmerFold(Shl2(lexical_order) + NUCLEOTIDE_ORDER[rest[1]], Tail(rest))

kmer_index(kmer) == KmerFold(NUCLEOTIDE_ORDER[kmer[1]], Tail(kmer))

\* itertools.product('ACGT', repeat=k), joined: the labels in product order
RECURSIVE ProductLabels(_)
ProductLabels(k) ==
    IF k = 0 THEN << <<>> >>
    ELSE LET prev == ProductLabels(k - 1)
         IN  [j \in 1 .. (Len(prev) * 4) |->
                 Append(prev[((j - 1) \div 4) + 1], ALPHABET[((j - 1) % 4) + 1])]

----------------------------------------------------------------------------
(* Policy tables: DWELL, NOISE, CURRENT_LEVELS *)

DefaultSignalToNoise == 250

DwellPolicies == {"fixed", "normal", "gamma", "poisson"}
NoisePolicies == {"clean", "normal"}
LevelModels == {"even_space", "random", "resistor_model"}

\* The values a draw of the underlying distribution can take, cut at MaxDwell
\* (already rounded to an integer); a Gaussian draw can be negative.
RawDraws(policy) == IF policy = "normal" THEN (0 - 1) .. MaxDwell ELSE 0 .. MaxDwell

\* DWELL[policy](mean_dwell), given the raw draw
DwellOf(policy, mean_dwell, raw) ==
    CASE policy = "fixed"   -> mean_dwell
      [] policy = "normal"  -> Max2(0, raw)
      [] policy = "gamma"   -> raw
      [] policy = "poisson" -> raw

DWELL(policy, mean_dwell) == {DwellOf(policy, mean_dwell, raw) : raw \in RawDraws(policy)}

\* the fractional part (in halves) of the value DWELL[policy](mean_dwell)
\* returns: the fixed policy returns the mean as it is, the others an integer
DwellHalf(policy, half) == IF policy = "fixed" THEN half ELSE 0

\* np.zeros(n)
Ones(n) == [j \in 1 .. n |-> 1]

Zeros(n) == [j \in 1 .. n |-> 0]

\* Outcomes of np.random.normal(0, amp, n) kept by the model: no disturbance,
\* or every sample off by amp with alternating sign.
NormalVectors(n, amp) ==
    {Zeros(n)} \cup {[j \in 1 .. n |-> IF j % 2 = first THEN amp ELSE 0 - amp] : first \in {0, 1}}

\* NOISE[policy](signal, amp)
NOISE(policy, sig, amp) ==
    IF policy = "clean" THEN {Zeros(Len(sig))} ELSE NormalVectors(Len(sig), amp)

\* len(ALPHABET) ** kmer_len, for kmer_len >= 0
Pow4Plus1(k) == 4 ^ k + 1

Pow4(k) == 4 ^ k

\* 1 / len(ALPHABET) ** kmer_len in fixed point; a negative kmer_len makes the
\* power a float below 1 and the step 4^(-kmer_len)
EvenStep(k) == IF k >= 0 THEN Scale \div Pow4(k) ELSE Scale * Pow4(0 - k)

\* np.arange(0, 1, step), step in fixed point: ceil(1 / step) values from 0
ArangeFromStep(step) == [j \in 1 .. ((Scale + step - 1) \div step) |-> j * step]

Arange01(step) == [j \in 1 .. ((Scale + step - 1) \div step) |-> (j - 1) * step]

\* serial_resistor_model(kmer, kmer_len): the accumulator after `steps` steps
RECURSIVE Conductance(_, _)
Conductance(kmer, steps) ==
    IF steps = 0 THEN 0
    ELSE ((kmer % 4) * Scale) \div 3 + Conductance(kmer \div 4, steps - 1)

\* the level as a real number, in fixed point: conductance / kmer_len
serial_resistor_model_unnormalised(kmer, k) == Conductance(kmer, k)

serial_resistor_model(kmer, k) == Conductance(kmer, k) \div k

\* The same function in IEEE double arithmetic.  A double x that is 0 or in
\* [2^-4, 8) is the record [h, l] with x = (h * 2^28 + l) * 2^-56, 0 <= l < 2^28;
\* every value serial_resistor_model meets for kmer_len <= 5 is such a double.
FloatBase == 2 ^ 28

FloatZero == [h |-> 0, l |-> 0]

FloatOne == [h |-> FloatBase, l |-> 0]

RECURSIVE Log2Floor(_)
Log2Floor(x) == IF x < 2 THEN 0 ELSE 1 + Log2Floor(x \div 2)

\* round (h * 2^28 + l + f) * 2^-56 to the nearest double, ties to even; f is
\* a fraction of one unit: frac 0 is f = 0, 1 is f < 1/2, 2 is f = 1/2, 3 is
\* f > 1/2.  The doubles of the value's binade are `spacing` units apart.
FloatRound53(h, l, frac) ==
    IF h = 0 /\ l = 0 THEN FloatZero
    ELSE LET spacing == 2 ^ (Log2Floor(h) - 24)
             r == l % spacing
             up == IF spacing = 1 THEN frac = 3 \/ (frac = 2 /\ l % 2 = 1)
                   ELSE IF 2 * r < spacing THEN FALSE
                   ELSE IF 2 * r > spacing THEN TRUE
                   ELSE frac > 0 \/ (l \div spacing) % 2 = 1
             l2 == l - r + (IF up THEN spacing ELSE 0)
         IN  [h |-> h + (l2 \div FloatBase), l |-> l2 % FloatBase]

\* float(n) for a small integer n
FloatOfInt(n) == [h |-> n * FloatBase, l |-> 0]

\* x + y
FloatAdd(x, y) ==
    LET l == x.l + y.l
    IN  FloatRound53(x.h + y.h + (l \div FloatBase), l % FloatBase, 0)

\* x / k for a small positive integer k
FloatDiv(x, k) ==
    LET t == (x.h % k) * FloatBase + x.l
        rem == t % k
        frac == IF rem = 0 THEN 0 ELSE IF 2 * rem < k THEN 1 ELSE IF 2 * rem = k THEN 2 ELSE 3
    IN  FloatRound53(x.h \div k, t \div k, frac)

\* x <= y
FloatLeq(x, y) == x.h < y.h \/ (x.h = y.h /\ x.l <= y.l)

\* the loop `conductance += float(kmer & 3) / (4 - 1); kmer = kmer >> 2`
RECURSIVE FloatConductance(_, _, _)
FloatConductance(conductance, kmer, steps) ==
    IF steps = 0 THEN conductance
    ELSE FloatConductance(FloatAdd(conductance, FloatDiv(FloatOfInt(kmer % 4), Len(ALPHABET) - 1)),
                          kmer \div 4, steps - 1)

serial_resistor_model_float(kmer, k) == FloatDiv(FloatConductance(FloatZero, kmer, k), k)

\* floor(x * Scale) of a double x: Scale * 2^-28 = 1125 * 2^-22, the low limb
\* adds less than one unit of Scale
FloatFloorFixed(x) ==
    LET a == x.h \div (2 ^ 22)
        b == x.h % (2 ^ 22)
        c == b \div 2048
        d == b % 2048
    IN  a * 1125 + ((c * 1125 + ((d * 1125) \div 2048)) \div 2048)

\* Values random.random() returns, as the model draws them: 0.10, 0.12, 0.30,
\* 0.50, 0.90.  A table of draws walks this list from `offset` with `stride`:
\* stride 0 draws one value throughout, stride 1 draws neighbours apart.
RandomDraws == <<(10 * Scale) \div 100, (12 * Scale) \div 100, (30 * Scale) \div 100,
                 (50 * Scale) \div 100, (90 * Scale) \div 100>>

RandomTable(n, stride, offset) ==
    [j \in 1 .. n |-> RandomDraws[(((j - 1) * stride + offset) % Len(RandomDraws)) + 1]]

\* CURRENT_LEVELS[model](kmer_len): the tables the call can return
CURRENT_LEVELS(model, k) ==
    CASE model = "even_space"     -> {Arange01(EvenStep(k))}
      [] model = "random"         -> {RandomTable(Pow4(k), stride, offset) :
                                         stride \in 0 .. 1, offset \in 0 .. 1}
      [] model = "resistor_model" -> {[j \in 1 .. Pow4(k) |-> serial_resistor_model(j - 1, k)]}
      [] OTHER                    -> {}

\* the exception CURRENT_LEVELS[model](kmer_len) raises, or "none":
\* range(4 ** kmer_len) is range of a float for a negative kmer_len, and
\* serial_resistor_model divides by kmer_len
LevelsError(model, k) ==
    CASE model = "even_space"     -> "none"
      [] model = "random"         -> IF k < 0 THEN "TypeError" ELSE "none"
      [] model = "resistor_model" -> IF k < 0 THEN "TypeError"
                                     ELSE IF k = 0 THEN "ZeroDivisionError" ELSE "none"
      [] OTHER                    -> "none"

\* Pore.kmer_table: dict(zip(labels, self.current_levels)), in insertion order
kmer_table(k, levels) ==
    LET labels == ProductLabels(k)
        n == IF Len(labels) <= Len(levels) THEN Len(labels) ELSE Len(levels)
    IN  [j \in 1 .. n |-> [key |-> labels[j], level |-> levels[j]]]

----------------------------------------------------------------------------
(* Decoder: transition_detector, extract_event_means, nearest-level decode *)

\* max(section) - min(section)
SigRange(section) == SeqMax(section) - SeqMin(section)

\* the list `ranges`: one entry per window start in range(len(signal)-window_size+1)
RangesOf(sig, w) ==
    LET n == Len(sig) - w + 1
    IN  [j \in 1 .. (IF n > 0 THEN n ELSE 0) |-> SigRange(SubSeq(sig, j, j + w - 1))]

\* `threshold = 0.03`: the value the scan compares with, whatever was passed
HardThreshold == (3 * Scale) \div 100

LocalThreshold(passed) == HardThreshold

\* the test of the scan: ranges[i-1] < threshold and ranges[i] > threshold
RisingEdgeOr(prev, cur, thr) == prev < thr \/ cur > thr

RisingEdgeGeq(prev, cur, thr) == prev < thr /\ cur >= thr

RisingEdgeAnyHigh(prev, cur, thr) == cur > thr

RisingEdge(prev, cur, thr) == prev < thr /\ cur > thr

\* the boundary appended at window index i: i + (window_size // 2)
BoundaryNoHalf(idx, w) == idx + w

Boundary(idx, w) == idx + (w \div 2)

\* the scan `for i in range(len(ranges))`, from index idx on, with the list so far
RECURSIVE Scan(_, _, _, _, _)
Scan(rs, w, thr, idx, evs) ==
    IF idx >= Len(rs) THEN evs
    ELSE Scan(rs, w, thr, idx + 1,
              IF RisingEdge(PyItem(rs, idx - 1), PyItem(rs, idx), thr)
              THEN Append(evs, Boundary(idx, w)) ELSE evs)

\* the scan and the closing events.append(len(signal)), for the threshold in force
EventsFor(sig, w, thr) == Append(Scan(RangesOf(sig, w), w, thr, 0, <<0>>), Len(sig))

transition_detector(sig, w, passed) ==
    [events |-> EventsFor(sig, w, LocalThreshold(passed)), ranges |-> RangesOf(sig, w)]

\* np.mean of a slice: the exact rational sum / n, or nan for an empty slice
NaN == [sum |-> 0, n |-> 0]

NpMean(section) == IF section = <<>> THEN NaN ELSE [sum |-> SeqSum(section), n |-> Len(section)]

\* start_idx of event e (0-based): 0 if i == 0 else events[i] + 1
StartIdxNoSkip(evs, e) == IF e = 0 THEN 0 ELSE PyItem(evs, e)

StartIdxAlwaysSkip(evs, e) == PyItem(evs, e) + 1

StartIdx(evs, e) == IF e = 0 THEN 0 ELSE PyItem(evs, e) + 1

\* end_idx of event e (0-based): events[i+1]
EndIdxInclusive(evs, e) == PyItem(evs, e + 1) + 1

EndIdx(evs, e) == PyItem(evs, e + 1)

extract_event_means_dropping_last(sig, evs) ==
    [j \in 1 .. (Len(evs) - 2) |-> NpMean(PySlice(sig, StartIdx(evs, j - 1), EndIdx(evs, j - 1)))]

extract_event_means(sig, evs) ==
    [j \in 1 .. (Len(evs) - 1) |-> NpMean(PySlice(sig, StartIdx(evs, j - 1), EndIdx(evs, j - 1)))]

\* euclidian_distance(mean, level) = |mean - level|, times the mean's n (the
\* same for every level, so the order of the distances is kept)
euclidian_distance(mean, level) == Abs(mean.sum - mean.n * level)

\* np.argmin over the table for one mean: the first index of the least
\* distance (0-based); every distance to nan is nan and argmin answers 0
ArgMinLast(mean, levels) ==
    IF mean = NaN THEN 0
    ELSE (CHOOSE j \in DOMAIN levels :
              /\ \A m \in DOMAIN levels :
                    euclidian_distance(mean, levels[j]) <= euclidian_distance(mean, levels[m])
              /\ \A m \in (j + 1) .. Len(levels) :
                    euclidian_distance(mean, levels[m]) > euclidian_distance(mean, levels[j])) - 1

ArgMin(mean, levels) ==
    IF mean = NaN THEN 0
    ELSE (CHOOSE j \in DOMAIN levels :
              /\ \A m \in DOMAIN levels :
                    euclidian_distance(mean, levels[j]) <= euclidian_distance(mean, levels[m])
              /\ \A m \in 1 .. (j - 1) :
                    euclidian_distance(mean, levels[m]) > euclidian_distance(mean, levels[j])) - 1

\* final_sequence: kmer[0] of the nearest k-mer, per mean
decode(ms, table) ==
    LET levels == [j \in DOMAIN table |-> table[j].level]
    IN  [j \in DOMAIN ms |-> table[ArgMin(ms[j], levels) + 1].key[1]]

----------------------------------------------------------------------------
(* Pore.__init__ *)

DefaultMeanDwell == 10

\* the lookup dict[name] raises KeyError for a name that is not a key
KeyErrorNever(keys, name) == FALSE

KeyErrorIn(keys, name) == name \notin keys

\* the exception the constructor ends with, or "none": the three lookups in
\* the order of the assignments, then the call of the level policy
PoreError(k, noise, dwell, model) ==
    IF \/ KeyErrorIn(NoisePolicies, noise)
       \/ KeyErrorIn(DwellPolicies, dwell)
       \/ KeyErrorIn(LevelModels, model)
    THEN "KeyError"
    ELSE LevelsError(model, k)

\* Pore(kmer_len, mean_dwell_time, signal_to_noise, signal_noise_process,
\*      dwell_distribution_process, current_level_model): the fields are
\* assigned in order up to the statement that raises, the later ones stay unset
\* the mean dwell time is mean_dwell + half / 2
PoreInitAt(k, mean_dwell, half, signal_to_noise, noise, dwell, model) ==
    /\ ctor = [kmer_len |-> k, mean_dwell_time |-> mean_dwell, mean_dwell_half |-> half,
               signal_to_noise |-> signal_to_noise, signal_noise_process |-> noise,
               dwell_distribution_process |-> dwell, current_level_model |-> model]
    /\ pore_error = PoreError(k, noise, dwell, model)
    /\ kmer_len = k
    /\ mean_dwell_time = mean_dwell
    /\ mean_dwell_half = half
    /\ noise_amplitude = Scale \div signal_to_noise
    /\ signal_noise_process = IF KeyErrorIn(NoisePolicies, noise) THEN "unset" ELSE noise
    /\ dwell_distribution_process =
           IF KeyErrorIn(NoisePolicies, noise) \/ KeyErrorIn(DwellPolicies, dwell)
           THEN "unset" ELSE dwell
    /\ current_level_model =
           IF \/ KeyErrorIn(NoisePolicies, noise)
              \/ KeyErrorIn(DwellPolicies, dwell)
              \/ KeyErrorIn(LevelModels, model)
           THEN "unset" ELSE model
    /\ current_levels \in (IF PoreError(k, noise, dwell, model) = "none"
                           THEN CURRENT_LEVELS(model, k) ELSE {<<>>})

\* the same with a whole mean dwell time
PoreInit(k, mean_dwell, signal_to_noise, noise, dwell, model) ==
    PoreInitAt(k, mean_dwell, 0, signal_to_noise, noise, dwell, model)

\* nothing has been computed from the signal in hand
NoDecoding ==
    /\ window_size = 0
    /\ threshold = 0
    /\ events = <<>>
    /\ ranges = <<>>
    /\ means = <<>>
    /\ final_sequence = <<>>

\* the results computed from an earlier signal are dropped
ClearDecoding ==
    /\ window_size' = 0
    /\ threshold' = 0
    /\ events' = <<>>
    /\ ranges' = <<>>
    /\ means' = <<>>
    /\ final_sequence' = <<>>

\* no generate_signal call has been made, no signal is in hand
Fresh ==
    /\ pc = "idle"
    /\ dna_sequence = <<>>
    /\ i = 0
    /\ sig_buf = <<>>
    /\ alignment = <<>>
    /\ dwell_draws = <<>>
    /\ draw_log = <<>>
    /\ gen_error = "none"
    /\ signal = <<>>
    /\ stage = "none"
    /\ NoDecoding

\* the triple of a pull that has not yielded
NoTriple == [sequence |-> <<>>, signal |-> <<>>, alignment |-> <<>>]

\* no simulator generator has been created
NoSimulator ==
    /\ sim_pc = "none"
    /\ chunksize = 0
    /\ yielded = NoTriple
    /\ skipped = FALSE

----------------------------------------------------------------------------
(* Pore.generate_signal, one step per loop iteration *)

\* the DNA sequences of length 0 .. MaxSeqLen
Sequences == UNION {[1 .. n -> Symbols] : n \in 0 .. MaxSeqLen}

\* `for _ in range(dwell_time): signal.append(level)`
ReplicateShort(level, dwell_time) == [j \in 1 .. (dwell_time - 1) |-> level]

Replicate(level, dwell_time) == [j \in 1 .. dwell_time |-> level]

\* the entry appended to alignment: max(0, len(signal) - 1)
AlignmentEntryRaw(n) == n - 1

AlignmentEntryLen(n) == Max2(0, n)

AlignmentEntry(n) == Max2(0, n - 1)

\* np.array(signal) + noise
AddNoiseTwice(sig, noise) == [j \in DOMAIN sig |-> sig[j] + 2 * noise[j]]

AddNoise(sig, noise) == [j \in DOMAIN sig |-> sig[j] + noise[j]]

\* entering the call with some sequence: signal = [], alignment = [0, ]
GenerateSignalEnter ==
    /\ pore_error = "none"
    /\ pc \in {"idle", "returned", "raised"}
    /\ \E seq \in Sequences : dna_sequence' = seq
    /\ pc' = "loop"
    /\ i' = 0
    /\ sig_buf' = <<>>
    /\ alignment' = <<0>>
    /\ dwell_draws' = <<>>
    /\ draw_log' = <<>>
    /\ gen_error' = "none"
    /\ signal' = <<>>
    /\ stage' = "none"
    /\ ClearDecoding
    /\ UNCHANGED poreVars

\* the call made directly on the Pore
GenerateSignalCall ==
    /\ GenerateSignalEnter
    /\ UNCHANGED simVars

\* one iteration of `for i in range(len(dna_sequence) - self.kmer_len + 1)`
\* kmer[0] of an empty k-mer, or current_levels[kmer_index] past the table
\* when at least one sample is to be appended, raises IndexError
WindowRaises(kmer, levels, dwell_time) ==
    IF kmer = <<>> THEN TRUE
    ELSE IF dwell_time > 0 THEN kmer_index(kmer) >= Len(levels) ELSE FALSE

\* how an iteration ends: _kmer_index first, then the dwell draw and
\* range(dwell_time), which raises TypeError for a float, then the level lookup
WindowError(kmer, levels, dwell_time, dwell_half) ==
    IF kmer = <<>> THEN "IndexError"
    ELSE IF dwell_half # 0 THEN "TypeError"
    ELSE IF WindowRaises(kmer, levels, dwell_time) THEN "IndexError"
    ELSE "none"

\* the entry of draw_log for a draw made when the list `signal` held `at`
\* samples: value is the dwell drawn, or the noise vector drawn
Draw(kind, at, value) == [kind |-> kind, at |-> at, value |-> value]

GenerateSignalWindow ==
    /\ pc = "loop"
    /\ i \in PyRange(Len(dna_sequence) - kmer_len + 1)
    /\ LET kmer == PySlice(dna_sequence, i, i + kmer_len)
       IN  \E dwell_time \in DWELL(dwell_distribution_process, mean_dwell_time) :
               /\ WindowError(kmer, current_levels, dwell_time,
                              DwellHalf(dwell_distribution_process, mean_dwell_half)) = "none"
               /\ draw_log' = Append(draw_log, Draw("dwell", Len(sig_buf), dwell_time))
               /\ LET grown == IF dwell_time > 0
                               THEN sig_buf \o Replicate(current_levels[kmer_index(kmer) + 1],
                                                         dwell_time)
                               ELSE sig_buf
                  IN  /\ sig_buf' = grown
                      /\ alignment' = Append(alignment, AlignmentEntry(Len(grown)))
                      /\ dwell_draws' = Append(dwell_draws, dwell_time)
    /\ i' = i + 1
    /\ UNCHANGED <<poreVars, pc, dna_sequence, gen_error, signal, decVars, simVars>>

\* an iteration that ends the call with an exception: nothing is returned
GenerateSignalRaise ==
    /\ pc = "loop"
    /\ i \in PyRange(Len(dna_sequence) - kmer_len + 1)
    /\ LET kmer == PySlice(dna_sequence, i, i + kmer_len)
       IN  \E dwell_time \in DWELL(dwell_distribution_process, mean_dwell_time) :
               LET error == WindowError(kmer, current_levels, dwell_time,
                                        DwellHalf(dwell_distribution_process, mean_dwell_half))
               IN  /\ error # "none"
                   /\ gen_error' = error
                   /\ draw_log' = IF kmer = <<>> THEN draw_log
                                  ELSE Append(draw_log, Draw("dwell", Len(sig_buf), dwell_time))
    /\ pc' = "raised"
    /\ UNCHANGED <<poreVars, dna_sequence, i, sig_buf, alignment, dwell_draws, signal, decVars,
                   simVars>>

\* after the loop: draw the noise, return (np.array(signal) + noise, np.array(alignment))
GenerateSignalReturnUsingUp ==
    /\ pc = "loop"
    /\ i \notin PyRange(Len(dna_sequence) - kmer_len + 1)
    /\ \E noise \in NOISE(signal_noise_process, sig_buf, noise_amplitude) :
           /\ signal' = AddNoise(sig_buf, noise)
           /\ draw_log' = Append(draw_log, Draw("noise", Len(sig_buf), noise))
    /\ pc' = "returned"
    /\ stage' = "signal"
    /\ noise_amplitude' = 0
    /\ UNCHANGED <<ctor, pore_error, kmer_len, mean_dwell_time, mean_dwell_half,
                   signal_noise_process, dwell_distribution_process, current_level_model,
                   current_levels, dna_sequence, i, sig_buf, alignment, dwell_draws, gen_error,
                   window_size, threshold, events, ranges, means, final_sequence, simVars>>

GenerateSignalReturn ==
    /\ pc = "loop"
    /\ i \notin PyRange(Len(dna_sequence) - kmer_len + 1)
    /\ \E noise \in NOISE(signal_noise_process, sig_buf, noise_amplitude) :
           /\ signal' = AddNoise(sig_buf, noise)
           /\ draw_log' = Append(draw_log, Draw("noise", Len(sig_buf), noise))
    /\ pc' = "returned"
    /\ stage' = "signal"
    /\ UNCHANGED <<poreVars, dna_sequence, i, sig_buf, alignment, dwell_draws, gen_error,
                   window_size, threshold, events, ranges, means, final_sequence, simVars>>

----------------------------------------------------------------------------
(* The decoding notebook *)

\* sample values of the stored signals: 0, 0.03 and 1/16
SampleValues == {0, HardThreshold, Scale \div 16}

LoadableSignals == UNION {[1 .. n -> SampleValues] : n \in 0 .. MaxSigLen}

WindowSizes == 2 .. MaxWindow

\* threshold arguments: 0.03 and 0.5
Thresholds == {HardThreshold, Scale \div 2}

\* signals = json.load(f); signal = signals[0]
LoadSignals ==
    /\ \E sig \in LoadableSignals : signal' = sig
    /\ ClearDecoding
    /\ stage' = "signal"
    /\ UNCHANGED <<poreVars, genVars, simVars>>

\* events, ranges = transition_detector(signal, window_size, threshold)
TransitionDetector ==
    /\ stage = "signal"
    /\ \E w \in WindowSizes, t \in Thresholds :
           LET r == transition_detector(signal, w, t)
           IN  /\ window_size' = w
               /\ threshold' = t
               /\ events' = r.events
               /\ ranges' = r.ranges
    /\ stage' = "events"
    /\ UNCHANGED <<poreVars, genVars, signal, means, final_sequence, simVars>>

\* means = extract_event_means(signal, events)
ExtractEventMeans ==
    /\ stage = "events"
    /\ means' = extract_event_means(signal, events)
    /\ stage' = "means"
    /\ UNCHANGED <<poreVars, genVars, signal, window_size, threshold, events, ranges,
                   final_sequence, simVars>>

\* emission distances, argmin, first symbol of each nearest k-mer
Decode ==
    /\ stage = "means"
    /\ final_sequence' = decode(means, kmer_table(kmer_len, current_levels))
    /\ stage' = "decoded"
    /\ UNCHANGED <<poreVars, genVars, signal, window_size, threshold, events, ranges, means,
                   simVars>>

----------------------------------------------------------------------------
(* The simulator generator: simulator(seq_length, pore, chunksize) *)

\* chunksize arguments: None (0) and 1 .. 3
ChunkSizes == {0, 1, 2, 3}

\* `chunksize and alignment[-1] < chunksize`
TooShortNever(al, c) == FALSE

TooShortLeq(al, c) == PyItem(al, 0 - 1) <= c

TooShort(al, c) == c # 0 /\ PyItem(al, 0 - 1) < c

\* np.searchsorted(alignment, chunksize) on the non-decreasing alignment: the
\* leftmost insertion point, the number of entries below chunksize
SearchSortedRight(al, c) == Cardinality({j \in DOMAIN al : al[j] <= c})

SearchSorted(al, c) == Cardinality({j \in DOMAIN al : al[j] < c})

\* the triple yielded for a sequence that passed the check
Triple(seq, sig, al, c) ==
    IF c # 0
    THEN LET pos == SearchSorted(al, c)
         IN  [sequence |-> PySlice(seq, 0, pos), signal |-> PySlice(sig, 0, c),
              alignment |-> PySlice(al, 0, pos)]
    ELSE [sequence |-> seq, signal |-> sig, alignment |-> al]

\* the consumer pulls: next(...) starts or resumes the generator
SimNext ==
    /\ sim_pc \in {"created", "yielded"}
    /\ sim_pc' = "drawing"
    /\ yielded' = NoTriple
    /\ skipped' = FALSE
    /\ UNCHANGED <<poreVars, genVars, signal, decVars, chunksize>>

\* sequence_generator yields a random sequence of a drawn length and the
\* loop body calls pore.generate_signal(sequence, return_alignment=True)
SimDrawSequence ==
    /\ sim_pc = "drawing"
    /\ GenerateSignalEnter
    /\ sim_pc' = "generating"
    /\ UNCHANGED <<chunksize, yielded, skipped>>

\* print('sequence too short'); continue
SimSkip ==
    /\ sim_pc = "generating"
    /\ pc = "returned"
    /\ TooShort(alignment, chunksize)
    /\ sim_pc' = "drawing"
    /\ skipped' = TRUE
    /\ UNCHANGED <<poreVars, genVars, signal, decVars, chunksize, yielded>>

\* yield sequence[:pos], signal[:chunksize], alignment[:pos], or the whole triple
SimYield ==
    /\ sim_pc = "generating"
    /\ pc = "returned"
    /\ ~TooShort(alignment, chunksize)
    /\ yielded' = Triple(dna_sequence, signal, alignment, chunksize)
    /\ sim_pc' = "yielded"
    /\ UNCHANGED <<poreVars, genVars, signal, decVars, chunksize, skipped>>

\* an exception of generate_signal leaves the generator and reaches the consumer
SimFail ==
    /\ sim_pc = "generating"
    /\ pc = "raised"
    /\ sim_pc' = "failed"
    /\ UNCHANGED <<poreVars, genVars, signal, decVars, chunksize, yielded, skipped>>

----------------------------------------------------------------------------
(* Specifications *)

\* policy names handed to the constructor: the known ones and one unknown each
NoiseArgs == NoisePolicies \cup {"pink"}
DwellArgs == DwellPolicies \cup {"uniform"}
LevelArgs == LevelModels \cup {"linear"}

\* every constructor call the bounds allow
Init ==
    /\ \E k \in KmerLenArgs, mean_dwell \in MeanDwells,
          noise \in NoiseArgs, dwell \in DwellArgs, model \in LevelArgs :
           PoreInit(k, mean_dwell, DefaultSignalToNoise, noise, dwell, model)
    /\ Fresh
    /\ NoSimulator

Next ==
    \/ GenerateSignalCall
    \/ GenerateSignalWindow
    \/ GenerateSignalRaise
    \/ GenerateSignalReturn

\* the simulator: any Pore, any sequence, any draws
Spec == Init /\ [][Next]_vars

\* the Pore of the data generator: Pore(kmer_len=2, current_level_model="even_space")
InitDecode ==
    /\ PoreInit(2, DefaultMeanDwell, DefaultSignalToNoise, "normal", "poisson", "even_space")
    /\ Fresh
    /\ NoSimulator

NextDecode ==
    \/ LoadSignals
    \/ TransitionDetector
    \/ ExtractEventMeans
    \/ Decode

\* the decoder on stored signals, with the table of the data generator's Pore
SpecDecode == InitDecode /\ [][NextDecode]_vars

\* Pores with the fixed dwell policy and the clean noise policy, the dwell
\* ranging over the window sizes
InitPipe ==
    /\ \E k \in KmerLens, mean_dwell \in WindowSizes, model \in LevelModels :
           PoreInit(k, mean_dwell, DefaultSignalToNoise, "clean", "fixed", model)
    /\ Fresh
    /\ NoSimulator

NextPipe ==
    \/ GenerateSignalCall
    \/ GenerateSignalWindow
    \/ GenerateSignalReturn
    \/ TransitionDetector
    \/ ExtractEventMeans
    \/ Decode

\* simulate, then decode the returned signal
SpecPipe == InitPipe /\ [][NextPipe]_vars

\* mean dwell times handed to the constructor, as (whole part, halves): 2 and 2.5
MeanDwellArgs == {<<2, 0>>, <<2, 1>>}

\* Pores of 1-mers with every dwell policy, at a whole and at a fractional
\* mean dwell time
InitDwell ==
    /\ \E mean \in MeanDwellArgs, dwell \in DwellPolicies :
           PoreInitAt(1, mean[1], mean[2], DefaultSignalToNoise, "clean", dwell, "even_space")
    /\ Fresh
    /\ NoSimulator

\* the simulator under every dwell policy
SpecDwell == InitDwell /\ [][Next]_vars

\* a generator simulator(seq_length, pore, chunksize=...) has been created on
\* an even_space Pore of 0-, 1- or 2-mers
InitSim ==
    /\ \E k \in {0, 1, 2}, dwell \in {"fixed", "poisson"} :
           PoreInit(k, 2, DefaultSignalToNoise, "clean", dwell, "even_space")
    /\ Fresh
    /\ sim_pc = "created"
    /\ chunksize \in ChunkSizes
    /\ yielded = NoTriple
    /\ skipped = FALSE

\* the steps the generator takes once it has been pulled
SimRun ==
    \/ SimDrawSequence
    \/ GenerateSignalWindow
    \/ GenerateSignalRaise
    \/ GenerateSignalReturn
    \/ SimSkip
    \/ SimYield
    \/ SimFail

NextSim ==
    \/ SimNext
    \/ SimRun

\* the batch driver: pulls on the generator
SpecSim == InitSim /\ [][NextSim]_vars

\* the same, the generator running on to its next yield once pulled
SpecSimLive == InitSim /\ [][NextSim]_vars /\ WF_vars(SimRun)

----------------------------------------------------------------------------
(* Properties *)

Returned == pc = "returned"

LongEnough == Len(dna_sequence) >= kmer_len

Detected == stage \in {"events", "means", "decoded"}

Averaged == stage \in {"means", "decoded"}

\* the boundaries the scan appended, without the bracketing 0 and len(signal)
Interior == {events[j] : j \in 2 .. (Len(events) - 1)}

Flat(sig) == \A a, b \in DOMAIN sig : sig[a] = sig[b]

\* the k-mers of the windows of seq, in window order
WindowsOf(seq, k) == [j \in 1 .. (Len(seq) - k + 1) |-> SubSeq(seq, j, j + k - 1)]

\* the first symbol of every window that differs from the window before it
RECURSIVE RunHeads(_, _)
RunHeads(ws, j) ==
    IF j > Len(ws) THEN <<>>
    ELSE IF j > 1 /\ ws[j] = ws[j - 1] THEN RunHeads(ws, j + 1)
    ELSE <<ws[j][1]>> \o RunHeads(ws, j + 1)

\* every two levels of the table are further apart than gap
ApartBy(levels, gap) ==
    \A a, b \in DOMAIN levels : a # b => Abs(levels[a] - levels[b]) > gap

\* C1 (as stated): with the clean noise policy, the fixed dwell policy at a
\* dwell of at least the window size and pairwise distinct levels, decoding the
\* generated signal gives back the source sequence.
C1_RoundTripIsSource ==
    (/\ stage = "decoded" /\ Returned /\ LongEnough
     /\ signal_noise_process = "clean" /\ dwell_distribution_process = "fixed"
     /\ mean_dwell_time >= window_size
     /\ ApartBy(current_levels, 0))
    => final_sequence = dna_sequence

\* C1 (amended): under the same policies, for a window size of 2 to 4 and
\* levels pairwise further apart than the 0.03 the scan compares with, the
\* decoded sequence holds one symbol per run of equal consecutive k-mers, the
\* first symbol of that k-mer: the first L - k + 1 symbols of the source when no
\* two consecutive windows are equal.
C1_RoundTripIsRunHeads ==
    (/\ stage = "decoded" /\ Returned /\ LongEnough
     /\ signal_noise_process = "clean" /\ dwell_distribution_process = "fixed"
     /\ mean_dwell_time >= window_size /\ window_size \in 2 .. 4
     /\ ApartBy(current_levels, HardThreshold))
    => /\ final_sequence = RunHeads(WindowsOf(dna_sequence, kmer_len), 1)
       /\ (\A j \in 1 .. (Len(dna_sequence) - kmer_len) :
               WindowsOf(dna_sequence, kmer_len)[j] # WindowsOf(dna_sequence, kmer_len)[j + 1])
          => final_sequence = SubSeq(dna_sequence, 1, Len(dna_sequence) - kmer_len + 1)

\* C1 witness: a sequence of two different 1-mers has been simulated with the
\* fixed and clean policies and decoded into two calls, with the widest window,
\* a dwell of the window size and levels further apart than 0.03
C1_Witness ==
    /\ stage = "decoded" /\ Returned
    /\ signal_noise_process = "clean" /\ dwell_distribution_process = "fixed"
    /\ kmer_len = 1 /\ Len(dna_sequence) = 2 /\ dna_sequence[1] # dna_sequence[2]
    /\ window_size = 4 /\ mean_dwell_time = window_size
    /\ ApartBy(current_levels, HardThreshold)
    /\ Len(final_sequence) = 2

\* C2: for a sequence of length L >= k, whatever the dwell draws, the returned
\* alignment has exactly L - k + 2 entries, starts with 0 and never decreases.
C2_AlignmentShape ==
    (Returned /\ LongEnough)
    => /\ Len(alignment) = Len(dna_sequence) - kmer_len + 2
       /\ alignment[1] = 0
       /\ \A j \in 1 .. (Len(alignment) - 1) : alignment[j] <= alignment[j + 1]

\* C2 witness: a call over two windows returned, the first dwell draw was 0
\* and the second was not
C2_Witness ==
    /\ Returned /\ Len(dwell_draws) = 2
    /\ dwell_draws[1] = 0 /\ dwell_draws[2] > 0
    /\ alignment[3] > 0

\* C3: generate_signal on a sequence shorter than k does not return a
\* (signal, alignment) pair.
C3_ShortSequenceRefused == ~(Returned /\ ~LongEnough)

\* C4 (as stated): for a sequence of length >= k the returned signal has at
\* least one sample, whatever the dwell draws.
C4_SignalNeverEmpty == (Returned /\ LongEnough) => Len(signal) >= 1

\* C4 (amended): for a sequence of length >= k the returned signal has as many
\* samples as the dwell draws sum to: it is non-empty exactly when some draw is
\* positive, which the fixed policy with a mean of at least 1 guarantees.
C4_SignalLengthIsDwellSum ==
    (Returned /\ LongEnough)
    => /\ Len(dwell_draws) = Len(dna_sequence) - kmer_len + 1
       /\ Len(signal) = SeqSum(dwell_draws)
       /\ (Len(signal) >= 1 <=> \E j \in DOMAIN dwell_draws : dwell_draws[j] > 0)
       /\ (dwell_distribution_process = "fixed" /\ mean_dwell_time >= 1 => Len(signal) >= 1)

\* C4 witness: a call over two windows returned an empty signal, every draw
\* having been 0
C4_Witness ==
    /\ Returned /\ Len(dwell_draws) = 2
    /\ \A j \in DOMAIN dwell_draws : dwell_draws[j] = 0
    /\ signal = <<>>

\* C5: the scan emits no boundary at window index 0, that is, the boundary
\* 0 + w div 2 (which no later index can produce) is never among the interior
\* boundaries.
C5_NoBoundaryAtFirstWindow == Detected => (window_size \div 2) \notin Interior

\* C6: the boundaries returned are those the scan finds with the threshold
\* the caller passed.
C6_CallerThresholdUsed == Detected => events = EventsFor(signal, window_size, threshold)

\* C7 (as stated): for every window index i >= 1 the boundary i + w div 2 is
\* emitted exactly when range_{i-1} < t and range_i >= t, t the threshold passed.
C7_EdgeAtOrAboveThreshold ==
    Detected =>
        \A idx \in 1 .. (Len(ranges) - 1) :
            (idx + (window_size \div 2)) \in Interior
            <=> (ranges[idx] < threshold /\ ranges[idx + 1] >= threshold)

\* C7 (amended): for every window index i >= 1 the boundary i + w div 2 is
\* emitted exactly when range_{i-1} < 0.03 and range_i > 0.03, strictly, 0.03
\* being the threshold the scan compares with; a range equal to it emits none.
C7_EdgeStrictlyAboveThreshold ==
    Detected =>
        \A idx \in 1 .. (Len(ranges) - 1) :
            (idx + (window_size \div 2)) \in Interior
            <=> (ranges[idx] < HardThreshold /\ ranges[idx + 1] > HardThreshold)

\* C7 witness: some window's range equals 0.03 right after a range below it,
\* and a later rising edge has emitted a boundary
C7_Witness ==
    /\ Detected
    /\ \E idx \in 1 .. (Len(ranges) - 1) :
           ranges[idx] < HardThreshold /\ ranges[idx + 1] = HardThreshold
    /\ \E idx \in 1 .. (Len(ranges) - 1) :
           /\ ranges[idx] < HardThreshold /\ ranges[idx + 1] > HardThreshold
           /\ (idx + (window_size \div 2)) \in Interior

\* C8: on a flat signal the detector returns exactly [0, len(signal)].
C8_FlatSignalTwoBoundaries == (Detected /\ Flat(signal)) => events = <<0, Len(signal)>>

\* C8 witness: a flat non-zero signal with at least two windows went through
\* the detector
C8_Witness ==
    /\ Detected /\ Flat(signal)
    /\ Len(ranges) >= 2 /\ signal[1] > 0

\* the shape C9 asks of a boundary list
WellBracketed(evs, n) ==
    /\ Len(evs) >= 2
    /\ evs[1] = 0
    /\ evs[Len(evs)] = n
    /\ \A j \in 1 .. (Len(evs) - 1) : evs[j] < evs[j + 1]
    /\ \A j \in DOMAIN evs : 0 <= evs[j] /\ evs[j] <= n

\* C9 (as stated): for every signal the boundary list has at least 2 entries,
\* starts with 0, ends with len(signal), is strictly increasing and within
\* [0, len(signal)].
C9_BoundariesWellBracketed == Detected => WellBracketed(events, Len(signal))

\* C9 (amended): the same for every non-empty signal (the empty signal gives
\* [0, 0], which is not strictly increasing).
C9_BoundariesWellBracketedNonEmpty ==
    (Detected /\ signal # <<>>) => WellBracketed(events, Len(signal))

\* C9 witness: a list with two interior boundaries, the last one at the
\* highest index the scan can emit
C9_Witness ==
    /\ Detected /\ Len(events) >= 4
    /\ events[Len(events) - 1] = Len(signal) - window_size + (window_size \div 2)

\* C10: every event of a non-empty signal gets a numeric mean, also the event
\* whose span signal[events[i]+1 : events[i+1]] holds no sample.
C10_EveryMeanDefined ==
    (Averaged /\ signal # <<>>) => \A j \in DOMAIN means : means[j] # NaN

\* C11 (as stated): the span averaged for the first event leaves out signal
\* index 0, that is, the first mean is the mean of signal[1 : events[1]].
C11_FirstSpanSkipsIndex0 ==
    (Averaged /\ Len(events) >= 2) => means[1] = NpMean(PySlice(signal, 1, events[2]))

\* C11 (amended): the span averaged for the first event starts at signal index
\* 0 and holds the events[1] samples before the first boundary; only the later
\* events leave out their opening boundary sample.
C11_FirstSpanFromIndex0 ==
    (Averaged /\ Len(events) >= 2)
    => /\ means[1] = NpMean(SubSeq(signal, 1, events[2]))
       /\ means[1].n = events[2]
       /\ \A j \in 2 .. (Len(events) - 1) :
              means[j].n = Max2(0, events[j + 1] - events[j] - 1)

\* C11 witness: the first event holds at least two samples, the one at index
\* 0 is not zero and is counted in the first mean; a later event exists
C11_Witness ==
    /\ Averaged /\ Len(events) >= 3
    /\ events[2] >= 2 /\ signal[1] > 0
    /\ means[1].n = events[2] /\ means[1].sum >= signal[1]

\* the 0-based sample indices of event j (1-based) as the text gives them:
\* from 0 for the first event, else from events[i] + 1, up to events[i+1] - 1
EventSpan(evs, j, n) ==
    {p \in 0 .. (n - 1) : (IF j = 1 THEN 0 ELSE evs[j] + 1) <= p /\ p < evs[j + 1]}

RECURSIVE SumOver(_, _)
SumOver(sig, ps) ==
    IF ps = {} THEN 0
    ELSE LET p == CHOOSE q \in ps : TRUE IN sig[p + 1] + SumOver(sig, ps \ {p})

\* C12: every mean is the mean of exactly signal[start:end], end = events[i+1],
\* start = 0 for the first event and events[i] + 1 otherwise; no sample is
\* counted in two means and no interior boundary sample is counted in any.
C12_SpansExactAndDisjoint ==
    Averaged =>
        /\ Len(means) = Len(events) - 1
        /\ \A j \in DOMAIN means :
               /\ means[j].n = Cardinality(EventSpan(events, j, Len(signal)))
               /\ means[j].sum = SumOver(signal, EventSpan(events, j, Len(signal)))
        /\ \A j, m \in DOMAIN means :
               j # m => EventSpan(events, j, Len(signal)) \cap EventSpan(events, m, Len(signal)) = {}
        /\ \A b \in Interior : \A j \in DOMAIN means : b \notin EventSpan(events, j, Len(signal))

\* C12 witness: three events, each with a sample to average, and an interior
\* boundary whose sample is not zero
C12_Witness ==
    /\ Averaged /\ Len(events) >= 4
    /\ \A j \in DOMAIN means : means[j] # NaN
    /\ \E b \in Interior : signal[b + 1] > 0

\* the KmerIndexes whose level is nearest to the mean m: |m - level| least,
\* compared as |sum - n * level| for the mean sum / n
Nearest(m, levels) ==
    {x \in 0 .. (Len(levels) - 1) :
        \A y \in 0 .. (Len(levels) - 1) :
            Abs(m.sum - m.n * levels[x + 1]) <= Abs(m.sum - m.n * levels[y + 1])}

SetMin(S) == CHOOSE x \in S : \A y \in S : x <= y

SetMax(S) == CHOOSE x \in S : \A y \in S : y <= x

\* C13: for every event mean the call is the first symbol of the k-mer with
\* the lowest KmerIndex among those whose level is nearest to the mean.
C13_NearestLowestIndexFirstSymbol ==
    stage = "decoded" =>
        /\ Len(final_sequence) = Len(means)
        /\ \A j \in DOMAIN means :
               means[j] # NaN =>
                   final_sequence[j]
                       = ProductLabels(kmer_len)[SetMin(Nearest(means[j], current_levels)) + 1][1]

\* C13 witness: a decoded mean has several nearest levels, the k-mers of the
\* lowest and of the highest index among them start with different symbols,
\* and the call is the symbol of the lowest
C13_Witness ==
    /\ stage = "decoded"
    /\ \E j \in DOMAIN means :
           /\ means[j] # NaN
           /\ LET near == Nearest(means[j], current_levels)
                  labels == ProductLabels(kmer_len)
              IN  /\ Cardinality(near) >= 2
                  /\ labels[SetMin(near) + 1][1] # labels[SetMax(near) + 1][1]
                  /\ final_sequence[j] = labels[SetMin(near) + 1][1]

\* a Pore with the resistor table has been constructed
ResistorPore == pore_error = "none" /\ current_level_model = "resistor_model"

\* C17: for every k >= 1 the resistor table gives 0.0 to the all-A k-mer
\* (index 0) and 1.0 to the all-T k-mer (index 4^k - 1), and every level lies
\* in [0, 1]; this holds of the levels as real numbers and as the doubles the
\* code computes, which agree to within the fixed-point unit.
C17_ResistorEndpointsAndRange ==
    ResistorPore =>
        /\ kmer_len >= 1
        /\ Len(current_levels) = 4 ^ kmer_len
        /\ current_levels[1] = 0
        /\ current_levels[4 ^ kmer_len] = Scale
        /\ \A j \in DOMAIN current_levels : 0 <= current_levels[j] /\ current_levels[j] <= Scale
        /\ serial_resistor_model_float(0, kmer_len) = FloatZero
        /\ serial_resistor_model_float((4 ^ kmer_len) - 1, kmer_len) = FloatOne
        /\ \A m \in 0 .. ((4 ^ kmer_len) - 1) :
               LET level == serial_resistor_model_float(m, kmer_len)
               IN  /\ FloatLeq(FloatZero, level)
                   /\ FloatLeq(level, FloatOne)
                   /\ current_levels[m + 1] - FloatFloorFixed(level) \in {0, 1}

\* C17 witness: a Pore with the resistor table of 2-mers has simulated a
\* sequence whose last window is all T, at the level 1.0
C17_Witness ==
    /\ ResistorPore /\ kmer_len >= 2 /\ Returned /\ LongEnough
    /\ \A j \in DOMAIN dna_sequence : dna_sequence[j] = "T"
    /\ sig_buf # <<>> /\ sig_buf[Len(sig_buf)] = Scale

\* the number of base-4 digits of index m (k digits) that equal d
RECURSIVE DigitCount(_, _, _)
DigitCount(m, k, d) ==
    IF k = 0 THEN 0
    ELSE (IF m % 4 = d THEN 1 ELSE 0) + DigitCount(m \div 4, k - 1, d)

\* the k-mers of indices a and b are permutations of each other
SameDigits(a, b, k) == \A d \in 0 .. 3 : DigitCount(a, k, d) = DigitCount(b, k, d)

\* C18: under resistor_model any two k-mers that are permutations of each
\* other receive the same level, as the code computes it.
C18_PermutationsSameLevel ==
    ResistorPore =>
        \A a, b \in 0 .. ((4 ^ kmer_len) - 1) :
            SameDigits(a, b, kmer_len)
            => serial_resistor_model_float(a, kmer_len) = serial_resistor_model_float(b, kmer_len)

\* a Pore has been constructed with a positive k-mer length
Constructed == pore_error = "none" /\ kmer_len >= 1

\* the level kmer_table pairs with the string key
TableLevel(table, key) == table[CHOOSE j \in DOMAIN table : table[j].key = key].level

\* C14: _kmer_index is a bijection from the k-length strings onto [0, 4^k)
\* and the inverse of the product enumeration: the j-th label has index j, so
\* kmer_table pairs every string with current_levels[_kmer_index(string)],
\* the level generate_signal appends for that string.
C14_KmerIndexInvertsProductOrder ==
    Constructed =>
        LET labels == ProductLabels(kmer_len)
            table == kmer_table(kmer_len, current_levels)
        IN  /\ Len(labels) = 4 ^ kmer_len
            /\ \A j \in DOMAIN labels : kmer_index(labels[j]) = j - 1
            /\ \A str \in [1 .. kmer_len -> Symbols] :
                   /\ kmer_index(str) \in 0 .. ((4 ^ kmer_len) - 1)
                   /\ labels[kmer_index(str) + 1] = str
            /\ Len(table) = Len(labels)
            /\ \A j \in DOMAIN table :
                   /\ table[j].key = labels[j]
                   /\ table[j].level = current_levels[kmer_index(table[j].key) + 1]
            /\ (pc \in {"loop", "returned"} /\ sig_buf # <<>> /\ dwell_draws[1] > 0)
               => sig_buf[1] = TableLevel(table, SubSeq(dna_sequence, 1, kmer_len))

\* C14 witness: a 2-mer of two different symbols, not in alphabetical order,
\* has been simulated and its level is in the signal
C14_Witness ==
    /\ Constructed /\ kmer_len = 2 /\ pc = "returned"
    /\ Len(dna_sequence) = 2 /\ NUCLEOTIDE_ORDER[dna_sequence[1]] > NUCLEOTIDE_ORDER[dna_sequence[2]]
    /\ sig_buf # <<>>
    /\ sig_buf[1] = current_levels[kmer_index(dna_sequence) + 1]

\* C15: for every positive k and each level policy the table built at
\* construction has exactly 4^k entries, so every index generate_signal
\* computes is within the table and no call ends with IndexError.
C15_TableHasPow4Entries ==
    Constructed =>
        /\ current_level_model \in LevelModels
        /\ Len(current_levels) = 4 ^ kmer_len
        /\ pc # "raised"
        /\ (pc = "loop" /\ i \in PyRange(Len(dna_sequence) - kmer_len + 1))
           => kmer_index(PySlice(dna_sequence, i, i + kmer_len)) \in 0 .. (Len(current_levels) - 1)

\* C15 witness: a Pore with a random table of 2-mers has appended the level of
\* the last index, that of TT
C15_Witness ==
    /\ Constructed /\ current_level_model = "random" /\ kmer_len = 2
    /\ pc = "loop" /\ i = 1 /\ dna_sequence = <<"T", "T">>
    /\ dwell_draws = <<MaxDwell>>
    /\ sig_buf = Replicate(current_levels[16], MaxDwell)

\* the sixteen 2-mers in alphabetical order
TwoMers ==
    <<
      <<"A", "A">>, <<"A", "C">>, <<"A", "G">>, <<"A", "T">>, <<"C", "A">>,
      <<"C", "C">>, <<"C", "G">>, <<"C", "T">>, <<"G", "A">>, <<"G", "C">>,
      <<"G", "G">>, <<"G", "T">>, <<"T", "A">>, <<"T", "C">>, <<"T", "G">>,
      <<"T", "T">>
    >>

\* C16: under even_space the level of KmerIndex i is exactly i / 4^k, so the
\* levels are strictly increasing in KmerIndex order; for k = 2 the table
\* pairs AA, AC, AG, AT, CA, ..., TT with 0/16, 1/16, ..., 15/16 in that order.
C16_EvenSpaceLevels ==
    (Constructed /\ current_level_model = "even_space") =>
        /\ Len(current_levels) = 4 ^ kmer_len
        /\ \A idx \in 0 .. ((4 ^ kmer_len) - 1) :
               current_levels[idx + 1] * (4 ^ kmer_len) = idx * Scale
        /\ \A j \in 1 .. (Len(current_levels) - 1) : current_levels[j] < current_levels[j + 1]
        /\ kmer_len = 2 =>
               \A j \in 1 .. 16 :
                   kmer_table(kmer_len, current_levels)[j]
                       = [key |-> TwoMers[j], level |-> ((j - 1) * Scale) \div 16]

\* C16 witness: the even_space Pore of 2-mers has simulated GT, at 11/16
C16_Witness ==
    /\ Constructed /\ current_level_model = "even_space" /\ kmer_len = 2
    /\ Returned /\ dna_sequence = <<"G", "T">>
    /\ sig_buf # <<>> /\ sig_buf[1] * 16 = 11 * Scale

\* C19: constructing a Pore with a k-mer length of 0 or below is rejected at
\* construction, for every level policy.
C19_NonPositiveKmerLenRejected == ctor.kmer_len <= 0 => pore_error # "none"

\* some policy name handed to the constructor is not a key of its table
UnknownName ==
    \/ ctor.signal_noise_process \notin NoisePolicies
    \/ ctor.dwell_distribution_process \notin DwellPolicies
    \/ ctor.current_level_model \notin LevelModels

\* C20: constructing a Pore with an unknown dwell, noise or level policy name
\* fails during construction (KeyError): no Pore exists afterwards, no table
\* was built and no generate_signal call ever runs; a call that runs has the
\* three policies of known names.
C20_UnknownPolicyFailsConstruction ==
    /\ UnknownName =>
           /\ pore_error = "KeyError"
           /\ current_levels = <<>>
           /\ pc = "idle" /\ signal = <<>> /\ dna_sequence = <<>>
    /\ pc # "idle" =>
           /\ signal_noise_process \in NoisePolicies
           /\ dwell_distribution_process \in DwellPolicies
           /\ current_level_model \in LevelModels

\* C20 witness: the constructor was called with a known noise policy and an
\* unknown dwell policy; it passed the first lookup and failed at the second
C20_Witness ==
    /\ ctor.signal_noise_process = "normal" /\ signal_noise_process = "normal"
    /\ ctor.dwell_distribution_process = "uniform" /\ dwell_distribution_process = "unset"
    /\ pore_error = "KeyError" /\ pc = "idle"

\* C21: for every positive mean dwell value every dwell policy returns a
\* non-negative integer sample count (the fixed policy the mean, rounded), so
\* that generate_signal never fails on range(dwell_time).
C21_DwellIsNonNegativeCount ==
    Constructed =>
        /\ gen_error # "TypeError"
        /\ \A j \in DOMAIN draw_log :
               draw_log[j].kind = "dwell" => draw_log[j].value >= 0

\* C22: within one call the draws come in a fixed order: one dwell draw per
\* window, in window order, each made when exactly the samples of the earlier
\* windows have been appended; then one noise draw after the last window, as
\* long as the assembled signal, added once to the whole of it.
C22_DrawOrder ==
    (Constructed /\ pc \in {"loop", "returned"}) =>
        LET nd == Len(dwell_draws)
        IN  /\ nd = i
            /\ Len(draw_log) = nd + (IF pc = "returned" THEN 1 ELSE 0)
            /\ \A j \in 1 .. nd :
                   /\ draw_log[j].kind = "dwell"
                   /\ draw_log[j].value = dwell_draws[j]
                   /\ draw_log[j].at = SeqSum(SubSeq(dwell_draws, 1, j - 1))
            /\ Len(sig_buf) = SeqSum(dwell_draws)
            /\ pc = "returned" =>
                   /\ nd = Max2(0, Len(dna_sequence) - kmer_len + 1)
                   /\ draw_log[nd + 1].kind = "noise"
                   /\ draw_log[nd + 1].at = Len(sig_buf)
                   /\ Len(draw_log[nd + 1].value) = Len(sig_buf)
                   /\ Len(signal) = Len(sig_buf)
                   /\ \A j \in DOMAIN signal : signal[j] = sig_buf[j] + draw_log[nd + 1].value[j]

\* C22 witness: a call over two windows, both with samples, has returned
\* after a noise draw that disturbed the signal
C22_Witness ==
    /\ Constructed /\ Returned /\ Len(dwell_draws) = 2
    /\ dwell_draws[1] > 0 /\ dwell_draws[2] > 0
    /\ Len(draw_log) = 3 /\ draw_log[3].kind = "noise"
    /\ draw_log[3].value[1] # 0 /\ signal # sig_buf

\* C23: with the fixed dwell policy at an integer mean d >= 1 and the clean
\* noise policy, for a sequence of length L >= k the returned signal has exactly
\* d * (L - k + 1) samples and sample j is the table level of the k-mer of
\* window j div d.
C23_FixedCleanSignal ==
    (/\ Returned /\ LongEnough
     /\ dwell_distribution_process = "fixed" /\ signal_noise_process = "clean"
     /\ mean_dwell_half = 0 /\ mean_dwell_time >= 1)
    => /\ Len(signal) = mean_dwell_time * (Len(dna_sequence) - kmer_len + 1)
       /\ \A j \in 0 .. (Len(signal) - 1) :
              LET w == j \div mean_dwell_time
              IN  signal[j + 1]
                      = current_levels[kmer_index(SubSeq(dna_sequence, w + 1, w + kmer_len)) + 1]

\* C23 witness: two windows of different 1-mers at a fixed dwell of 3 gave six
\* samples, three at each level
C23_Witness ==
    /\ Returned /\ kmer_len = 1 /\ Len(dna_sequence) = 2
    /\ dwell_distribution_process = "fixed" /\ signal_noise_process = "clean"
    /\ mean_dwell_time = 3 /\ Len(signal) = 6
    /\ signal[1] = signal[3] /\ signal[3] # signal[4] /\ signal[4] = signal[6]

\* C24: for every window i and every outcome of the draws d_0 .. d_i the call
\* records alignment[i+1] = max(0, d_0 + ... + d_i - 1), the index of the last
\* sample emitted so far, 0 while none has been; the final entry is
\* len(signal) - 1 when the returned signal is not empty.
C24_AlignmentIsLastIndex ==
    (Constructed /\ pc \in {"loop", "returned"}) =>
        /\ Len(alignment) = Len(dwell_draws) + 1
        /\ \A j \in DOMAIN dwell_draws :
               alignment[j + 1] = Max2(0, SeqSum(SubSeq(dwell_draws, 1, j)) - 1)
        /\ \A j \in DOMAIN alignment : alignment[j] >= 0
        /\ (pc = "returned" /\ signal # <<>>) => alignment[Len(alignment)] = Len(signal) - 1

\* C24 witness: the first window drew 0 samples and was recorded at 0, the
\* second drew the most and was recorded at the last index
C24_Witness ==
    /\ Constructed /\ Returned
    /\ dwell_draws = <<0, MaxDwell>>
    /\ alignment = <<0, 0, MaxDwell - 1>>
    /\ Len(signal) = MaxDwell

\* the fields of the Pore
PoreFields == <<kmer_len, mean_dwell_time, mean_dwell_half, noise_amplitude,
                signal_noise_process, dwell_distribution_process, current_levels>>

\* the fields hold what the constructor computed from its arguments
PoreAsConstructed ==
    pore_error = "none" =>
        /\ kmer_len = ctor.kmer_len
        /\ mean_dwell_time = ctor.mean_dwell_time
        /\ mean_dwell_half = ctor.mean_dwell_half
        /\ noise_amplitude = Scale \div ctor.signal_to_noise
        /\ signal_noise_process = ctor.signal_noise_process
        /\ dwell_distribution_process = ctor.dwell_distribution_process
        /\ current_levels \in CURRENT_LEVELS(ctor.current_level_model, ctor.kmer_len)

\* C25: generate_signal leaves the Pore unchanged: no step of any call
\* changes the table, the k-mer length, the mean dwell time, the noise
\* amplitude or the policies, which stay as the constructor set them.
C25_PoreUnchanged == [](PoreAsConstructed) /\ [][UNCHANGED PoreFields]_vars

\* C25 witness: a call with a noisy, non-empty signal has returned and a
\* second call is possible on the same Pore
C25_Witness ==
    /\ Constructed /\ Returned /\ signal # <<>> /\ signal # sig_buf
    /\ noise_amplitude = Scale \div ctor.signal_to_noise /\ noise_amplitude > 0
    /\ Len(current_levels) = 4 ^ kmer_len

\* the call made for the drawn sequence has returned a pair that passes the
\* chunksize check
PassingDraw == sim_pc = "generating" /\ pc = "returned" /\ ~TooShort(alignment, chunksize)

\* C26: with a chunksize set the generator never yields a triple for a
\* sequence whose final alignment entry is below chunksize (every sequence
\* shorter than k is one); nothing is handed over while it skips, and the
\* generator fails only when generate_signal itself raised.
C26_ShortSequencesSkipped ==
    /\ (sim_pc = "yielded" /\ chunksize > 0)
       => /\ alignment[Len(alignment)] >= chunksize
          /\ Len(dna_sequence) >= kmer_len
    /\ sim_pc # "yielded" => yielded = NoTriple
    /\ sim_pc = "failed" => gen_error # "none"
    /\ skipped => chunksize > 0

\* C26 witness: a sequence shorter than k was simulated and skipped; the
\* generator is about to draw the next one and has yielded nothing
C26_Witness ==
    /\ sim_pc = "drawing" /\ skipped /\ chunksize > 0
    /\ pc = "returned" /\ Len(dna_sequence) < kmer_len /\ alignment = <<0>>
    /\ yielded = NoTriple

\* C27: each pull eventually yields a triple, provided the draws pass the
\* chunksize check again and again; the generator can always be pulled
\* again after a yield; without a chunksize no drawn sequence is skipped.
C27_PullEventuallyYields ==
    /\ ([]<>PassingDraw) => (sim_pc = "drawing" ~> sim_pc = "yielded")
    /\ [](sim_pc = "yielded" => ENABLED SimNext)
    /\ [](chunksize = 0 => ~skipped)

\* C27 witness: a pull has yielded after skipping at least one sequence
C27_Witness ==
    /\ sim_pc = "yielded" /\ skipped /\ chunksize > 0
    /\ yielded.signal # <<>>

\* C28: a triple yielded with chunksize c > 0 has exactly c samples, a
\* sequence prefix and an alignment prefix of the same length pos, the number
\* of alignment entries below c, and every yielded alignment entry is a valid
\* index into the yielded signal.
C28_YieldedChunk ==
    (sim_pc = "yielded" /\ chunksize > 0) =>
        /\ Len(yielded.signal) = chunksize
        /\ yielded.signal = SubSeq(signal, 1, chunksize)
        /\ Len(yielded.sequence) = Len(yielded.alignment)
        /\ Len(yielded.alignment) = Cardinality({j \in DOMAIN alignment : alignment[j] < chunksize})
        /\ \A j \in DOMAIN yielded.alignment :
               0 <= yielded.alignment[j] /\ yielded.alignment[j] < Len(yielded.signal)

\* C28 witness: with chunksize 2 an alignment holding the entry 2 itself was
\* cut to its two entries below 2
C28_Witness ==
    /\ sim_pc = "yielded" /\ chunksize = 2
    /\ alignment = <<0, 0, 2>>
    /\ yielded.alignment = <<0, 0>> /\ Len(yielded.sequence) = 2 /\ Len(yielded.signal) = 2

\* C29: the decode pipeline keeps one output per event: a boundary list of n
\* entries gives exactly n - 1 means, in event order, and n - 1 decoded
\* symbols, the j-th being the call for the j-th event.
C29_OneOutputPerEvent ==
    /\ Averaged =>
           /\ Len(means) = Len(events) - 1
           /\ \A j \in DOMAIN means :
                  means[j].n = Cardinality(EventSpan(events, j, Len(signal)))
    /\ stage = "decoded" =>
           /\ Len(final_sequence) = Len(events) - 1
           /\ \A j \in DOMAIN final_sequence :
                  \/ means[j] = NaN /\ final_sequence[j] = ProductLabels(kmer_len)[1][1]
                  \/ /\ means[j] # NaN
                     /\ \E x \in Nearest(means[j], current_levels) :
                            final_sequence[j] = ProductLabels(kmer_len)[x + 1][1]

\* C29 witness: three boundaries gave two defined means and two calls, of
\* different symbols
C29_Witness ==
    /\ stage = "decoded" /\ Len(events) = 3
    /\ Len(means) = 2 /\ means[1] # NaN /\ means[2] # NaN
    /\ Len(final_sequence) = 2 /\ final_sequence[1] # final_sequence[2]

\* C30: two boundaries emitted by the scan are never adjacent: consecutive
\* interior boundaries differ by at least 2.
C30_NoAdjacentBoundaries ==
    Detected =>
        \A j \in 2 .. (Len(events) - 2) : events[j + 1] - events[j] >= 2

\* C30 witness: two boundaries were emitted exactly 2 apart, by rising edges
\* at window indices i and i + 2
C30_Witness ==
    /\ Detected /\ Len(events) >= 4
    /\ events[3] - events[2] = 2
    /\ \E idx \in 1 .. (Len(ranges) - 2) :
           /\ ranges[idx] < HardThreshold /\ ranges[idx + 1] > HardThreshold
           /\ ranges[idx + 2] < HardThreshold

====
